---------------------------- MODULE Spec2Model ----------------------------
(***************************************************************************)
(* Model of career_business_mcp.py: a FastMCP server guarded by a single   *)
(* shared-secret bearer token, exposing "validate" and five report tools.  *)
(*                                                                         *)
(* Python strings are sequences of one-character strings, so that case     *)
(* folding, trimming and substring tests are operations that can differ    *)
(* from equality.  A character is a one-character ASCII string or one of   *)
(* the code points "U+212A" (KELVIN SIGN), "U+0130" (LATIN CAPITAL LETTER  *)
(* I WITH DOT ABOVE) and "U+0307" (COMBINING DOT ABOVE): the two non-ASCII *)
(* characters whose lower-casing yields an ASCII letter, and the character *)
(* the second one leaves behind.  Python values passed as tool arguments   *)
(* are records [t, s, m, e]: a str (t = "str", characters s), an int       *)
(* (t = "int", value m * 10^e, so that integers beyond the float range are *)
(* representable), or None (t = "none").  Arithmetic on Python ints is     *)
(* done on decimal digit sequences, most significant digit first.          *)
(***************************************************************************)
EXTENDS Integers, Sequences, FiniteSets, TLC

\* ------------------------------------------------------------------ bounds
\* Number of calls in flight at once under SpecConc.
NumSlots == 2
\* Clock readings 0..MaxNow; TicksPerDay readings fall on one calendar day.
MaxNow == 2
TicksPerDay == 2

\* ----------------------------------------------------------- Python values
StrV(s) == [t |-> "str", s |-> s, m |-> 0, e |-> 0]
IntV(m, e) == [t |-> "int", s |-> <<>>, m |-> m, e |-> e]
NoneV == [t |-> "none", s |-> <<>>, m |-> 0, e |-> 0]

\* os.environ.get(...) of an unset variable: None, which is no string.
None == <<"None">>

UpperChars ==
    <<"A","B","C","D","E","F","G","H","I","J","K","L","M",
      "N","O","P","Q","R","S","T","U","V","W","X","Y","Z">>
LowerChars ==
    <<"a","b","c","d","e","f","g","h","i","j","k","l","m",
      "n","o","p","q","r","s","t","u","v","w","x","y","z">>
DigitChars == <<"0","1","2","3","4","5","6","7","8","9">>

IndexOf(seq, c) == CHOOSE i \in 1..Len(seq) : seq[i] = c
IsIn(seq, c) == \E i \in 1..Len(seq) : seq[i] = c

\* The ASCII letters' case pairs
to_lower == [c \in {UpperChars[i] : i \in 1..Len(UpperChars)} |->
                LowerChars[IndexOf(UpperChars, c)]]
to_upper == [c \in {LowerChars[i] : i \in 1..Len(LowerChars)} |->
                UpperChars[IndexOf(LowerChars, c)]]

\* The lower-case mapping of one character: a string of one character, or
\* of two for U+0130
lower_char(c) ==
    IF c \in DOMAIN to_lower THEN <<to_lower[c]>>
    ELSE IF c = "U+212A" THEN <<"k">>
    ELSE IF c = "U+0130" THEN <<"i", "U+0307">>
    ELSE <<c>>
\* The title-case mapping of one character
upper_char(c) == IF c \in DOMAIN to_upper THEN to_upper[c] ELSE c

\* str.lower()
RECURSIVE str_lower(_)
str_lower(s) == IF s = <<>> THEN <<>> ELSE lower_char(Head(s)) \o str_lower(Tail(s))
\* str.capitalize(): first character title-cased, the rest lower-cased
str_capitalize(s) ==
    IF s = <<>> THEN <<>> ELSE <<upper_char(Head(s))>> \o str_lower(Tail(s))
\* sub in s
str_in(sub, s) ==
    \E i \in 1..(Len(s) - Len(sub) + 1) : SubSeq(s, i, i + Len(sub) - 1) = sub

RECURSIVE digits(_)
digits(n) == IF n < 10 THEN <<DigitChars[n + 1]>>
             ELSE digits(n \div 10) \o <<DigitChars[(n % 10) + 1]>>

Abs(n) == IF n < 0 THEN -n ELSE n
Sign(n) == IF n < 0 THEN <<"-">> ELSE <<>>
Zeros(k) == [i \in 1..k |-> "0"]

\* The number of decimal digits of |m * 10^e|
num_digits(v) == IF v.m = 0 THEN 1 ELSE Len(digits(Abs(v.m))) + v.e
\* The interpreter refuses to convert an int of more than 4300 digits to
\* str (ValueError)
str_int_fails(v) == num_digits(v) > 4300
\* f"{v}" of an int m * 10^e
str_int(v) == IF v.m = 0 THEN <<"0">>
              ELSE Sign(v.m) \o digits(Abs(v.m)) \o Zeros(v.e)

\* ------------------------------------------------------------- Python ints
\* A magnitude is a sequence of decimal digits 0..9 without leading zeros
\* (zero is <<0>>); a long is a sign and a magnitude.
RECURSIVE big_of(_)
big_of(n) == IF n < 10 THEN <<n>> ELSE big_of(n \div 10) \o <<n % 10>>

big_norm(a) ==
    LET nz == {i \in 1..Len(a) : a[i] # 0}
    IN IF nz = {} THEN <<0>>
       ELSE SubSeq(a, CHOOSE i \in nz : \A j \in nz : i <= j, Len(a))

\* -1, 0 or 1 as a < b, a = b or a > b
big_cmp(a, b) ==
    IF Len(a) # Len(b) THEN (IF Len(a) < Len(b) THEN -1 ELSE 1)
    ELSE LET d == {i \in 1..Len(a) : a[i] # b[i]}
         IN IF d = {} THEN 0
            ELSE LET i == CHOOSE k \in d : \A j \in d : k <= j
                 IN IF a[i] < b[i] THEN -1 ELSE 1

big_pad(a, n) == [i \in 1..(n - Len(a)) |-> 0] \o a

\* Digits lo..hi of a + b with the carry c into digit hi: the digits d and
\* the carry c out of digit lo.  The range is halved, the right half first;
\* the carry is never negative, and is evaluated before the digits.
RECURSIVE big_add_range(_, _, _, _, _)
big_add_range(a, b, lo, hi, c) ==
    IF c >= 0 /\ lo = hi
    THEN LET t == a[lo] + b[lo] + c IN [d |-> <<t % 10>>, c |-> t \div 10]
    ELSE LET mid == (lo + hi) \div 2
             R == big_add_range(a, b, mid + 1, hi, c)
             L == big_add_range(a, b, lo, mid, R.c)
         IN [d |-> L.d \o R.d, c |-> L.c]
big_add(a, b) ==
    LET n == IF Len(a) > Len(b) THEN Len(a) ELSE Len(b)
        r == big_add_range(big_pad(a, n), big_pad(b, n), 1, n, 0)
    IN big_norm(<<r.c>> \o r.d)

\* Digits lo..hi of a - b with the borrow c from digit hi
RECURSIVE big_sub_range(_, _, _, _, _)
big_sub_range(a, b, lo, hi, c) ==
    IF c >= 0 /\ lo = hi
    THEN LET t == a[lo] - b[lo] - c
         IN [d |-> <<IF t < 0 THEN t + 10 ELSE t>>, c |-> IF t < 0 THEN 1 ELSE 0]
    ELSE LET mid == (lo + hi) \div 2
             R == big_sub_range(a, b, mid + 1, hi, c)
             L == big_sub_range(a, b, lo, mid, R.c)
         IN [d |-> L.d \o R.d, c |-> L.c]
\* a - b, for a >= b
big_sub(a, b) == big_norm(big_sub_range(a, big_pad(b, Len(a)), 1, Len(a), 0).d)

\* Digits lo..hi of a * k with the carry c into digit hi
RECURSIVE big_mul_range(_, _, _, _, _)
big_mul_range(a, k, lo, hi, c) ==
    IF c >= 0 /\ lo = hi
    THEN LET t == a[lo] * k + c IN [d |-> <<t % 10>>, c |-> t \div 10]
    ELSE LET mid == (lo + hi) \div 2
             R == big_mul_range(a, k, mid + 1, hi, c)
             L == big_mul_range(a, k, lo, mid, R.c)
         IN [d |-> L.d \o R.d, c |-> L.c]
\* a * k, for 0 < k <= 65536
big_mul_small(a, k) ==
    LET r == big_mul_range(a, k, 1, Len(a), 0) IN big_norm(big_of(r.c) \o r.d)

\* Digits lo..hi of the quotient of a by k with the remainder r carried
\* into digit lo: long division, the left half first
RECURSIVE big_div_range(_, _, _, _, _)
big_div_range(a, k, lo, hi, r) ==
    IF r >= 0 /\ lo = hi
    THEN LET t == r * 10 + a[lo] IN [d |-> <<t \div k>>, r |-> t % k]
    ELSE LET mid == (lo + hi) \div 2
             L == big_div_range(a, k, lo, mid, r)
             R == big_div_range(a, k, mid + 1, hi, L.r)
         IN [d |-> L.d \o R.d, r |-> R.r]
\* Quotient and remainder of a by k, for 0 < k <= 65536
big_divmod_small(a, k) ==
    LET x == big_div_range(a, k, 1, Len(a), 0) IN [q |-> big_norm(x.d), r |-> x.r]

\* a * 2^n, the shift halved down to 16 bits at a time (a is evaluated
\* before it is shifted)
RECURSIVE big_shift_left(_, _)
big_shift_left(a, n) ==
    IF a # <<>> /\ n <= 16 THEN big_mul_small(a, 2 ^ n)
    ELSE big_shift_left(big_shift_left(a, n \div 2), n - n \div 2)
pow2(n) == big_shift_left(<<1>>, n)

\* a \div 2^n as q, and whether a one bit was shifted out
RECURSIVE big_shift_right(_, _)
big_shift_right(a, n) ==
    IF a # <<>> /\ n <= 16
    THEN LET d == big_divmod_small(a, 2 ^ n) IN [q |-> d.q, sticky |-> d.r # 0]
    ELSE LET h == big_shift_right(a, n \div 2)
             g == big_shift_right(h.q, n - n \div 2)
         IN [q |-> g.q, sticky |-> h.sticky \/ g.sticky]

long(neg, mag) == [neg |-> neg /\ mag # <<0>>, mag |-> mag]
long_of(n) == long(n < 0, big_of(Abs(n)))
long_add(x, y) ==
    IF x.neg = y.neg THEN long(x.neg, big_add(x.mag, y.mag))
    ELSE IF big_cmp(x.mag, y.mag) >= 0 THEN long(x.neg, big_sub(x.mag, y.mag))
    ELSE long(y.neg, big_sub(y.mag, x.mag))

\* An int argument m * 10^e keeps its power of ten through a product: the
\* int is sign, magnitude mag and exponent e, of value mag * 10^e.
int_of(v) == [neg |-> v.m < 0, mag |-> big_of(Abs(v.m)), e |-> v.e]
\* x * k, for 0 < k <= 65536
int_mul(x, k) == [x EXCEPT !.mag = big_mul_small(@, k)]
int_digits(x) == IF x.mag = <<0>> THEN 1 ELSE Len(x.mag) + x.e
\* The int written out as a long
int_long(x) == long(x.neg, big_norm(x.mag \o [i \in 1..x.e |-> 0]))

\* ----------------------------------------------------------- Python floats
\* A float holding an integer is the long of its value.  A double has a
\* 53-bit significand and rounds to nearest, ties to even.

\* The least p in lo..hi with a < 2^(54 + p), for a < 2^(54 + hi)
RECURSIVE excess_bits(_, _, _)
excess_bits(a, lo, hi) ==
    IF lo = hi THEN lo
    ELSE LET mid == (lo + hi) \div 2
         IN IF big_cmp(a, pow2(54 + mid)) < 0
            THEN excess_bits(a, lo, mid)
            ELSE excess_bits(a, mid + 1, hi)

\* Every magnitude below 2^53 is a double
float_exact_below == pow2(53)

\* The double nearest to the magnitude a, for a < 2^1024: a is shifted
\* down to 54 bits, the last of them the rounding bit
round_to_double(a) ==
    IF big_cmp(a, float_exact_below) < 0 THEN a
    ELSE LET p == excess_bits(a, 0, 970)
             r == big_shift_right(a, p)
             h == big_divmod_small(r.q, 2)
             up == h.r = 1 /\ (r.sticky \/ h.q[Len(h.q)] % 2 = 1)
         IN big_shift_left(IF up THEN big_add(h.q, <<1>>) ELSE h.q, p + 1)

\* The least magnitude that has no double: halfway between the largest
\* double 2^1024 - 2^971 and 2^1024, a number of 309 digits
float_overflow_from == big_sub(pow2(1024), pow2(970))

\* Converting the int x to float raises OverflowError ("int too large to
\* convert to float")
float_overflows(x) ==
    \/ int_digits(x) > 309
    \/ big_cmp(int_long(x).mag, float_overflow_from) >= 0

\* float(x), for x within range
float_of(x) == long(x.neg, round_to_double(x.mag))
\* x + y on floats holding integers, the exact sum being within range
float_add(x, y) == float_of(long_add(x, y))

\* f"{x:,}": counted from the right, every fourth character is a comma
fmt_comma(x) ==
    LET n == Len(x.mag)
        len == n + (n - 1) \div 3
        at(j) == LET r == len - j
                 IN IF r % 4 = 3 THEN ","
                    ELSE DigitChars[x.mag[n - (r - r \div 4)] + 1]
    IN (IF x.neg THEN <<"-">> ELSE <<>>) \o [j \in 1..len |-> at(j)]

\* datetime.now().strftime('%B %d, %Y'): the calendar date of the clock
\* reading, the time of day dropped.
strftime(now) == <<"day ">> \o digits(now \div TicksPerDay)

\* ------------------------------------------------------------ string data
s_empty == <<>>
s_Tok == <<"T","o","k">>
s_tok == <<"t","o","k">>
s_TokSp == <<"T","o","k"," ">>
s_SpTok == <<" ","T","o","k">>
s_wrong == <<"w","r","o","n","g">>
s_number == <<"9","1","9","8">>
s_Global == <<"G","l","o","b","a","l">>
s_medium == <<"m","e","d","i","u","m">>
s_low == <<"l","o","w">>
s_General == <<"G","e","n","e","r","a","l">>
s_developer == <<"d","e","v","e","l","o","p","e","r">>
s_engineer == <<"e","n","g","i","n","e","e","r">>
s_ai == <<"a","i">>
s_data == <<"d","a","t","a">>
s_software == <<"s","o","f","t","w","a","r","e">>
s_san_francisco == <<"s","a","n"," ","f","r","a","n","c","i","s","c","o">>
s_new_york == <<"n","e","w"," ","y","o","r","k">>
s_Engineer == <<"E","n","g","i","n","e","e","r">>
s_NewYork == <<"N","e","w"," ","Y","o","r","k">>
s_Tech == <<"T","e","c","h">>
s_CV == <<"C","V">>
s_Dev == <<"D","e","v">>
s_QA == <<"Q","A">>
s_SQL == <<"S","Q","L">>
s_50k == <<"5","0","k">>
s_x == <<"x">>

\* ------------------------------------------------------------ credentials
RECURSIVE lstrip(_)
lstrip(s) == IF s # <<>> /\ Head(s) = " " THEN lstrip(Tail(s)) ELSE s
RECURSIVE rstrip(_)
rstrip(s) == IF s # <<>> /\ s[Len(s)] = " " THEN rstrip(SubSeq(s, 1, Len(s) - 1)) ELSE s

\* Variant: the comparison folds case
load_access_token_ci(self_token, token) ==
    IF str_lower(token) = str_lower(self_token)
    THEN <<[token |-> token, client_id |-> "puch-client",
            scopes |-> {"*"}, expires_at |-> None]>>
    ELSE <<>>

\* Variant: the comparison trims surrounding blanks (token.strip())
load_access_token_strip(self_token, token) ==
    IF lstrip(rstrip(token)) = self_token
    THEN <<[token |-> token, client_id |-> "puch-client",
            scopes |-> {"*"}, expires_at |-> None]>>
    ELSE <<>>

\* SimpleBearerAuthProvider.load_access_token: an AccessToken when the
\* candidate equals self.token, else None.  Optional[AccessToken] is a
\* sequence of at most one record.
load_access_token(self_token, token) ==
    IF token = self_token
    THEN <<[token |-> token, client_id |-> "puch-client",
            scopes |-> {"*"}, expires_at |-> None]>>
    ELSE <<>>

\* ------------------------------------------------------ tool declarations
\* Variant: the last definition lacks its @mcp.tool decorator
ToolDefs_undecorated ==
    <<"validate", "job_market_analyzer", "resume_optimizer",
      "business_opportunity_finder", "salary_negotiator">>

\* The decorated functions in declaration order: the name each is
\* registered under (the function's __name__).
ToolDefs ==
    <<"validate", "job_market_analyzer", "resume_optimizer",
      "business_opportunity_finder", "salary_negotiator", "skill_gap_analyzer">>

Req(n, ty) == [name |-> n, type |-> ty, required |-> TRUE, default |-> NoneV]
Opt(n, ty, d) == [name |-> n, type |-> ty, required |-> FALSE, default |-> d]

\* Variant: job_title declared with "= None"
sig_job_market_analyzer_all_optional ==
    <<Opt("job_title", "str", NoneV),
      Opt("location", "str", StrV(s_Global)),
      Opt("industry", "str", NoneV)>>

\* The parameters each function declares: a parameter with no "= default"
\* is required.
sig_job_market_analyzer ==
    <<Req("job_title", "str"),
      Opt("location", "str", StrV(s_Global)),
      Opt("industry", "str", NoneV)>>

sig_resume_optimizer ==
    <<Req("current_resume", "str"),
      Req("target_job", "str"),
      Opt("years_experience", "int", IntV(2, 0))>>

sig_business_opportunity_finder ==
    <<Req("industry", "str"),
      Opt("location", "str", StrV(s_Global)),
      Opt("investment_range", "str", StrV(s_medium))>>

sig_salary_negotiator ==
    <<Req("job_title", "str"),
      Req("years_experience", "int"),
      Req("location", "str"),
      Opt("current_salary", "str", NoneV)>>

sig_skill_gap_analyzer ==
    <<Req("current_role", "str"),
      Req("target_role", "str"),
      Req("current_skills", "str"),
      Opt("years_experience", "int", IntV(2, 0))>>

Signature(fn) ==
    CASE fn = "validate" -> <<>>
      [] fn = "job_market_analyzer" -> sig_job_market_analyzer
      [] fn = "resume_optimizer" -> sig_resume_optimizer
      [] fn = "business_opportunity_finder" -> sig_business_opportunity_finder
      [] fn = "salary_negotiator" -> sig_salary_negotiator
      [] fn = "skill_gap_analyzer" -> sig_skill_gap_analyzer

ParamNames(fn) == {Signature(fn)[i].name : i \in 1..Len(Signature(fn))}
RequiredParams(fn) ==
    {Signature(fn)[i].name : i \in {j \in 1..Len(Signature(fn)) : Signature(fn)[j].required}}
ParamDecl(fn, p) ==
    Signature(fn)[CHOOSE i \in 1..Len(Signature(fn)) : Signature(fn)[i].name = p]

\* ---------------------------------------------------------------- handlers
\* A handler's outcome: the text it returns, or the exception it raises.
\* The returned text is the sequence of its pieces: the template's literal
\* chunks (one element each, abridged) and the characters interpolated
\* between them.
Returns(text) == [fault |-> FALSE, text |-> text]
Raises(exc) == [fault |-> TRUE, text |-> <<exc>>]

\* Variant: a hard-coded number is returned
validate_hardcoded(my_number) == Returns(<<"0">>)

\* async def validate(): return MY_NUMBER
validate(my_number) == Returns(my_number)

\* industry or "General": None and "" are falsy
or_General(v) == IF v.t = "none" \/ v.s = <<>> THEN s_General ELSE v.s

job_market_analyzer(a, now) ==
    LET job_title == a["job_title"].s
        lt == str_lower(job_title)
    IN Returns(
        <<"\n# Job Market Analysis: ">> \o job_title
        \o <<"\n\n## Market Overview\n**Location:** ">> \o a["location"].s
        \o <<"\n**Industry:** ">> \o or_General(a["industry"])
        \o <<"\n**Analysis Date:** ">> \o strftime(now)
        \o <<"\n\n## Market Trends\n- **Demand Level:** ">>
        \o <<IF str_in(s_developer, lt) \/ str_in(s_engineer, lt)
             THEN "High" ELSE "Moderate">>
        \o <<"\n- **Growth Rate:** ">>
        \o <<IF str_in(s_ai, lt) \/ str_in(s_data, lt)
             THEN "15-20% annually" ELSE "8-12% annually">>
        \o <<"\n- **Remote Work Adoption:** ">>
        \o <<IF str_in(s_software, lt)
             THEN "85% of companies offer remote options"
             ELSE "60% of companies offer hybrid options">>
        \o <<"\n\n## Salary Insights ... ## Recommendations ...\n">>)

resume_optimizer(a) ==
    LET target_job == a["target_job"].s
    IN IF str_int_fails(a["years_experience"]) THEN Raises("ValueError")
       ELSE Returns(
        <<"\n# ATS-Optimized Resume for: ">> \o target_job
        \o <<"\n\n## Professional Summary\nResults-driven ">> \o target_job
        \o <<" with ">> \o str_int(a["years_experience"])
        \o <<" years of experience in [industry]. ... ## Additional Recommendations ...\n">>)

\* '5K-15K' if investment_range == 'low' else '20K-50K' if
\* investment_range == 'medium' else '100K+'
tier(ir, low, medium, high) ==
    IF ir = s_low THEN low ELSE IF ir = s_medium THEN medium ELSE high

business_opportunity_finder(a, now) ==
    LET industry == a["industry"].s
        ir == a["investment_range"].s
    IN Returns(
        <<"\n# Business Opportunity Analysis: ">> \o industry
        \o <<"\n\n## Market Analysis\n**Industry:** ">> \o industry
        \o <<"\n**Location:** ">> \o a["location"].s
        \o <<"\n**Investment Level:** ">> \o str_capitalize(ir)
        \o <<"\n**Analysis Date:** ">> \o strftime(now)
        \o <<"\n\n## Identified Opportunities ... Digital Transformation Services ... $">>
        \o <<tier(ir, "5K-15K", "20K-50K", "100K+")>>
        \o <<" ... AI-Powered Solutions ... $">>
        \o <<tier(ir, "10K-25K", "30K-75K", "150K+")>>
        \o <<" ... Sustainability Services ... $">>
        \o <<tier(ir, "3K-10K", "15K-40K", "80K+")>>
        \o <<" ... ## Next Steps ...\n">>)

\* years_experience <= k, for 0 <= k < 10
int_le(v, k) == IF v.e = 0 THEN v.m <= k ELSE v.m <= 0

salary_negotiator(a) ==
    LET job_title == a["job_title"].s
        years_experience == a["years_experience"]
        location == a["location"].s
        ll == str_lower(location)
        base_salary == IF int_le(years_experience, 2) THEN 50000
                       ELSE IF int_le(years_experience, 5) THEN 70000 ELSE 100000
        \* location_multiplier 1.2 or 1.0, in tenths: 50000, 70000 and 100000
        \* times 1.2 are the exact doubles 60000.0, 84000.0 and 120000.0
        location_multiplier10 ==
            IF str_in(s_san_francisco, ll) \/ str_in(s_new_york, ll) THEN 12 ELSE 10
        experience_bonus == int_mul(int_of(years_experience), 5000)
        \* int(base_salary * location_multiplier + experience_bonus): the
        \* int is converted to float, the sum rounded, and int() of a float
        \* holding an integer is exact
        market_salary ==
            float_add(long_of((base_salary * location_multiplier10) \div 10),
                      float_of(int_long(experience_bonus)))
        plus(k) == long_add(market_salary, long_of(k))
    IN IF float_overflows(experience_bonus)
       THEN Raises("OverflowError")
       ELSE Returns(
        <<"\n# Salary Negotiation Guide: ">> \o job_title
        \o <<"\n\n## Market Salary Analysis\n**Position:** ">> \o job_title
        \o <<"\n**Experience:** ">> \o str_int(years_experience)
        \o <<" years\n**Location:** ">> \o location
        \o <<"\n**Market Range:** $">> \o fmt_comma(plus(-10000))
        \o <<" - $">> \o fmt_comma(plus(15000))
        \o <<"\n\n## Salary Breakdown\n- **Entry Level (0-2 years):** $">>
        \o fmt_comma(plus(-20000)) \o <<" - $">> \o fmt_comma(plus(-5000))
        \o <<"\n- **Mid Level (3-5 years):** $">>
        \o fmt_comma(plus(-10000)) \o <<" - $">> \o fmt_comma(plus(10000))
        \o <<"\n- **Senior Level (6+ years):** $">>
        \o fmt_comma(market_salary) \o <<" - $">> \o fmt_comma(plus(25000))
        \o <<"\n\n## Negotiation Strategy ... the market range for this role is $">>
        \o fmt_comma(plus(-10000)) \o <<" to $">> \o fmt_comma(plus(15000))
        \o <<". Given my ">> \o str_int(years_experience)
        \o <<" years of experience, ... something closer to $">>
        \o fmt_comma(plus(5000))
        \o <<" based on my experience ... ## When to Negotiate ...\n">>)

skill_gap_analyzer(a) ==
    LET current_role == a["current_role"].s
        target_role == a["target_role"].s
    IN IF str_int_fails(a["years_experience"]) THEN Raises("ValueError")
       ELSE Returns(
        <<"\n# Skill Gap Analysis: ">> \o current_role \o <<" -> ">> \o target_role
        \o <<"\n\n## Current Skills Assessment\n**Current Role:** ">> \o current_role
        \o <<"\n**Target Role:** ">> \o target_role
        \o <<"\n**Experience Level:** ">> \o str_int(a["years_experience"])
        \o <<" years\n\n**Your Current Skills:** ">> \o a["current_skills"].s
        \o <<"\n\n## Skill Gap Analysis ... ## Action Plan ...\n">>)

\* The body of the function registered as fn, run on the bound arguments a
\* with the clock reading now and the module global MY_NUMBER.
run_handler(fn, a, now, my_number) ==
    CASE fn = "validate" -> validate(my_number)
      [] fn = "job_market_analyzer" -> job_market_analyzer(a, now)
      [] fn = "resume_optimizer" -> resume_optimizer(a)
      [] fn = "business_opportunity_finder" -> business_opportunity_finder(a, now)
      [] fn = "salary_negotiator" -> salary_negotiator(a)
      [] fn = "skill_gap_analyzer" -> skill_gap_analyzer(a)

\* ------------------------------------------------------------------ inputs
Absent == [t |-> "absent", s |-> <<>>, m |-> 0, e |-> 0]
\* 10^400: a JSON integer whose product with 5000 is beyond the float range
HugeInt == IntV(1, 400)
\* 10^4300: an integer of 4301 digits
LongInt == IntV(1, 4300)

\* The values a call may carry for a parameter name
ArgValues(p) ==
    CASE p = "job_title" -> {StrV(s_Engineer)}
      [] p = "location" -> {StrV(s_NewYork)}
      [] p = "industry" -> {StrV(s_Tech)}
      [] p = "current_resume" -> {StrV(s_CV)}
      [] p = "target_job" -> {StrV(s_Dev)}
      [] p = "investment_range" -> {StrV(s_low)}
      [] p = "years_experience" -> {IntV(3, 0), HugeInt}
      [] p = "current_salary" -> {StrV(s_50k)}
      [] p = "current_role" -> {StrV(s_QA)}
      [] p = "target_role" -> {StrV(s_Dev)}
      [] p = "current_skills" -> {StrV(s_SQL)}

\* Every argument mapping over the parameter names P: each name absent or
\* carrying one of its values
ArgMaps(P) ==
    LET choice == {g \in [P -> UNION {ArgValues(p) \cup {Absent} : p \in P}] :
                      \A p \in P : g[p] \in ArgValues(p) \cup {Absent}}
    IN {[p \in {q \in P : g[q] # Absent} |-> g[p]] : g \in choice}

NoArgs == [p \in {} |-> Absent]

Candidates == {s_Tok, s_empty, s_tok, s_TokSp, s_SpTok, s_wrong}
\* The tool names a call may carry
ToolNames ==
    {"validate", "job_market_analyzer", "resume_optimizer",
     "business_opportunity_finder", "salary_negotiator", "skill_gap_analyzer",
     "nonexistent_tool"}

\* Further argument mappings: with "bogus", a name no function declares,
\* and with an integer too long to print
OddArgs(tool) ==
    CASE tool = "validate" -> {[p \in {"bogus"} |-> StrV(s_x)]}
      [] tool = "job_market_analyzer" ->
            {[p \in {"job_title", "bogus"} |->
                IF p = "bogus" THEN StrV(s_x) ELSE StrV(s_Engineer)]}
      [] tool = "resume_optimizer" ->
            {[p \in {"current_resume", "target_job", "years_experience"} |->
                CASE p = "current_resume" -> StrV(s_CV)
                  [] p = "target_job" -> StrV(s_Dev)
                  [] p = "years_experience" -> LongInt]}
      [] OTHER -> {}

\* The argument mappings a call of a tool may carry
ArgsFor(tool) ==
    IF tool = "nonexistent_tool" THEN ArgMaps({"job_title"})
    ELSE IF tool = "validate" THEN {NoArgs} \cup OddArgs(tool)
    ELSE ArgMaps(ParamNames(tool)) \cup OddArgs(tool)

Call(c, tool, a) == [cred |-> c, tool |-> tool, args |-> a]

\* The calls a client may send
AllCalls ==
    UNION {{Call(c, tool, a) : c \in Candidates, a \in ArgsFor(tool)} : tool \in ToolNames}

\* A keyword argument name=value; a call's keyword arguments are a
\* sequence of them, in the order the call passes them, no name twice
kw(n, v) == [name |-> n, value |-> v]

\* The order in which the drawn calls write their keywords
KeywordOrder ==
    <<"job_title", "current_resume", "target_job", "industry", "current_role",
      "target_role", "current_skills", "years_experience", "location",
      "investment_range", "current_salary", "bogus">>
keywords_of(a) ==
    LET supplied(n) == n \in DOMAIN a
        sel == SelectSeq(KeywordOrder, supplied)
    IN [i \in 1..Len(sel) |-> kw(sel[i], a[sel[i]])]

\* Calls with two names no function declares, in either order
OddCalls ==
    { [tool |-> "validate",
       kwargs |-> <<kw("bogus", StrV(s_x)), kw("extra", StrV(s_x))>>],
      [tool |-> "validate",
       kwargs |-> <<kw("extra", StrV(s_x)), kw("bogus", StrV(s_x))>>],
      [tool |-> "job_market_analyzer",
       kwargs |-> <<kw("job_title", StrV(s_Engineer)), kw("extra", StrV(s_x)),
                    kw("bogus", StrV(s_x))>>] }

\* The direct invocations a test may make: a function name with keyword
\* arguments that fit its signature; also with no arguments at all, any
\* of the above for job_market_analyzer, and the odd calls
ToolCalls ==
    UNION {{[tool |-> n, kwargs |-> keywords_of(a)] :
               a \in {x \in ArgsFor(n) : \/ RequiredParams(n) \subseteq DOMAIN x
                                        \/ x = NoArgs
                                        \/ n = "job_market_analyzer"}} :
           n \in ToolNames \ {"nonexistent_tool"}}
    \cup OddCalls

\* One call of each outcome, for the concurrent specification
ConcCalls ==
    { Call(s_wrong, "validate", NoArgs),
      Call(s_Tok, "nonexistent_tool", NoArgs),
      Call(s_Tok, "job_market_analyzer", NoArgs),
      Call(s_Tok, "job_market_analyzer", [p \in {"job_title"} |-> StrV(s_Engineer)]),
      Call(s_Tok, "salary_negotiator",
           [p \in {"job_title", "years_experience", "location"} |->
              CASE p = "job_title" -> StrV(s_Engineer)
                [] p = "years_experience" -> HugeInt
                [] p = "location" -> StrV(s_NewYork)]) }

\* The process environment (with .env loaded) the server may be started in
Environments ==
    [AUTH_TOKEN : {None, s_Tok, s_empty}, MY_NUMBER : {None, s_number}]

\* ------------------------------------------------------------------- state
VARIABLES
    env,         \* the process environment, read at startup
    pc,          \* position of module execution / the serving loop
    TOKEN,       \* module global TOKEN
    MY_NUMBER,   \* module global MY_NUMBER
    auth_token,  \* mcp.auth.token: the provider's self.token
    tools,       \* the server's tool registry: name -> registered function
    defs_done,   \* number of decorated definitions executed so far
    now,         \* the wall clock datetime.now() reads
    calls,       \* per slot: the call in flight and the dispatcher's position
    prev         \* the most recent success returned to a caller

vars == <<env, pc, TOKEN, MY_NUMBER, auth_token, tools, defs_done, now, calls, prev>>
config == <<env, TOKEN, MY_NUMBER, auth_token, tools, defs_done>>

NoResult == [kind |-> "none", code |-> "", names |-> {}, content |-> <<>>]
Success(text) == [kind |-> "success", code |-> "", names |-> {}, content |-> text]
Failure(code, names) == [kind |-> "error", code |-> code, names |-> names, content |-> <<>>]

Idle ==
    [pc |-> "idle", cred |-> <<>>, tool |-> "", args |-> NoArgs,
     principal |-> <<>>, handler |-> "", bound |-> NoArgs, read_now |-> -1,
     steps |-> <<>>, result |-> NoResult]

NoPrev == [tool |-> "", args |-> NoArgs, read_now |-> -1, content |-> <<>>]

InitWith(slots) ==
    /\ env \in Environments
    /\ pc = "load_env"
    /\ TOKEN = None
    /\ MY_NUMBER = None
    /\ auth_token = None
    /\ tools = [n \in {} |-> ""]
    /\ defs_done = 0
    /\ now = 0
    /\ calls = [s \in slots |-> Idle]
    /\ prev = NoPrev

Init == InitWith({1})
InitConc == InitWith(1..NumSlots)

\* ----------------------------------------------------------------- startup
\* load_dotenv(); TOKEN = os.environ.get("AUTH_TOKEN");
\* MY_NUMBER = os.environ.get("MY_NUMBER")
LoadEnv ==
    /\ pc = "load_env"
    /\ TOKEN' = env.AUTH_TOKEN
    /\ MY_NUMBER' = env.MY_NUMBER
    /\ pc' = "assert_token"
    /\ UNCHANGED <<env, auth_token, tools, defs_done, now, calls, prev>>

\* assert TOKEN is not None
AssertToken ==
    /\ pc = "assert_token"
    /\ pc' = IF TOKEN # None THEN "assert_number" ELSE "aborted"
    /\ UNCHANGED <<config, now, calls, prev>>

\* Variant: the assertion on MY_NUMBER is missing
AssertNumber_skipped ==
    /\ pc = "assert_number"
    /\ pc' = "build_server"
    /\ UNCHANGED <<config, now, calls, prev>>

\* assert MY_NUMBER is not None
AssertNumber ==
    /\ pc = "assert_number"
    /\ pc' = IF MY_NUMBER # None THEN "build_server" ELSE "aborted"
    /\ UNCHANGED <<config, now, calls, prev>>

\* mcp = FastMCP(..., auth=SimpleBearerAuthProvider(TOKEN)):
\* __init__ stores self.token = token
BuildServer ==
    /\ pc = "build_server"
    /\ auth_token' = TOKEN
    /\ pc' = "register"
    /\ UNCHANGED <<env, TOKEN, MY_NUMBER, tools, defs_done, now, calls, prev>>

\* @mcp.tool on the next decorated definition: registered under its name
RegisterTool ==
    /\ pc = "register"
    /\ defs_done < Len(ToolDefs)
    /\ tools' = (ToolDefs[defs_done + 1] :> ToolDefs[defs_done + 1]) @@ tools
    /\ defs_done' = defs_done + 1
    /\ UNCHANGED <<env, pc, TOKEN, MY_NUMBER, auth_token, now, calls, prev>>

\* asyncio.run(main()): mcp.run_async("streamable-http", ...)
Main ==
    /\ pc = "register"
    /\ defs_done = Len(ToolDefs)
    /\ pc' = "serving"
    /\ UNCHANGED <<config, now, calls, prev>>

\* The wall clock advances while the server runs
Tick ==
    /\ pc = "serving"
    /\ now < MaxNow
    /\ now' = now + 1
    /\ UNCHANGED <<config, pc, calls, prev>>

\* -------------------------------------------------------------- dispatcher
\* The request pipeline runs inside the hosting library (FastMCP); its five
\* steps follow the specification's dispatcher algorithm and call into the
\* module's own code: load_access_token, the registry built by @mcp.tool,
\* the declared signatures and the handler bodies.

\* The declared parameters without a default that the call does not supply
missing_required(fn, args) == RequiredParams(fn) \ DOMAIN args
\* The mapping from names to values that keyword arguments make
kw_map(kwargs) ==
    [p \in {kwargs[i].name : i \in 1..Len(kwargs)} |->
        kwargs[CHOOSE i \in 1..Len(kwargs) : kwargs[i].name = p].value]
\* The keywords the function does not declare, in the order passed
unexpected_keywords(fn, kwargs) ==
    LET undeclared(k) == k.name \notin ParamNames(fn)
    IN SelectSeq(kwargs, undeclared)

\* fn(**kwargs): Python binds the keyword arguments to the function's
\* parameters - the supplied value, else the declared default - and raises
\* TypeError, before the body runs, naming the first keyword passed that
\* the function does not declare or, failing that, the required
\* parameters left out.
bind_arguments(fn, kwargs) ==
    LET args == kw_map(kwargs)
        unexpected == unexpected_keywords(fn, kwargs)
    IN IF unexpected # <<>>
       THEN [ok |-> FALSE, names |-> {Head(unexpected).name}, bound |-> NoArgs]
       ELSE IF missing_required(fn, args) # {}
       THEN [ok |-> FALSE, names |-> missing_required(fn, args), bound |-> NoArgs]
       ELSE [ok |-> TRUE, names |-> {},
             bound |-> [p \in ParamNames(fn) |->
                         IF p \in DOMAIN args THEN args[p] ELSE ParamDecl(fn, p).default]]

\* The dispatcher passes on the arguments the tool declares, in the order
\* of the declaration, and ignores the others
known_arguments(fn, args) ==
    LET supplied(d) == d.name \in DOMAIN args
        sel == SelectSeq(Signature(fn), supplied)
    IN [i \in 1..Len(sel) |-> kw(sel[i].name, args[sel[i].name])]

\* Variant: the provider remembers the last token presented
load_access_token_effect_stores(token) == auth_token' = token

\* load_access_token assigns no attribute of the provider
load_access_token_effect(token) == UNCHANGED auth_token

\* Variant: a handler body rebinds the module global MY_NUMBER
handler_effect_assigns(fn) == MY_NUMBER' = <<>> /\ UNCHANGED <<TOKEN, tools>>

\* No handler body assigns a module global or touches the registry
handler_effect(fn) == UNCHANGED <<TOKEN, MY_NUMBER, tools>>

\* A request arrives on a free slot of the running server
Receive(s, C) ==
    /\ pc = "serving"
    /\ calls[s].pc = "idle"
    /\ \E c \in C :
         calls' = [calls EXCEPT ![s] =
                     [Idle EXCEPT !.pc = "authenticate", !.cred = c.cred,
                                  !.tool = c.tool, !.args = c.args]]
    /\ UNCHANGED <<config, pc, now, prev>>

\* Step 1: the bearer credential goes to the provider's load_access_token
Authenticate(s) ==
    LET c == calls[s]
        p == load_access_token(auth_token, c.cred)
    IN /\ c.pc = "authenticate"
       /\ calls' = [calls EXCEPT ![s] =
                      [c EXCEPT !.principal = p,
                                !.steps = Append(@, "authenticate"),
                                !.pc = IF p = <<>> THEN "respond" ELSE "resolve",
                                !.result = IF p = <<>>
                                           THEN Failure("AUTH_FAILURE", {})
                                           ELSE @]]
       /\ load_access_token_effect(c.cred)
       /\ UNCHANGED <<env, pc, TOKEN, MY_NUMBER, tools, defs_done, now, prev>>

\* Step 2: exact lookup of the tool name in the registry
Resolve(s) ==
    LET c == calls[s]
        found == c.tool \in DOMAIN tools
    IN /\ c.pc = "resolve"
       /\ calls' = [calls EXCEPT ![s] =
                      [c EXCEPT !.handler = IF found THEN tools[c.tool] ELSE @,
                                !.steps = Append(@, "resolve"),
                                !.pc = IF found THEN "validate" ELSE "respond",
                                !.result = IF found THEN @
                                           ELSE Failure("NOT_FOUND", {c.tool})]]
       /\ UNCHANGED <<config, pc, now, prev>>

\* Step 3: required parameters present, defaults applied
ValidateArguments(s) ==
    LET c == calls[s]
        missing == missing_required(c.handler, c.args)
    IN /\ c.pc = "validate"
       /\ calls' = [calls EXCEPT ![s] =
                      [c EXCEPT !.bound =
                                    IF missing = {}
                                    THEN bind_arguments(c.handler,
                                             known_arguments(c.handler, c.args)).bound
                                    ELSE @,
                                !.steps = Append(@, "validate"),
                                !.pc = IF missing = {} THEN "invoke" ELSE "respond",
                                !.result = IF missing = {} THEN @
                                           ELSE Failure("INVALID_PARAMS", missing)]]
       /\ UNCHANGED <<config, pc, now, prev>>

\* Step 4: the handler runs; an exception it raises becomes INTERNAL_ERROR
Invoke(s) ==
    LET c == calls[s]
        out == run_handler(c.handler, c.bound, now, MY_NUMBER)
    IN /\ c.pc = "invoke"
       /\ calls' = [calls EXCEPT ![s] =
                      [c EXCEPT !.read_now = now,
                                !.steps = Append(@, "invoke"),
                                !.pc = "respond",
                                !.result = IF out.fault
                                           THEN Failure("INTERNAL_ERROR", {})
                                           ELSE Success(out.text)]]
       /\ handler_effect(c.handler)
       /\ UNCHANGED <<env, pc, auth_token, defs_done, now, prev>>

\* Step 5: the result goes back to the caller and the slot is free again
Respond(s) ==
    LET c == calls[s]
    IN /\ c.pc = "respond"
       /\ calls' = [calls EXCEPT ![s] = Idle]
       /\ prev' = IF c.result.kind = "success"
                  THEN [tool |-> c.tool, args |-> c.args,
                        read_now |-> c.read_now, content |-> c.result.content]
                  ELSE prev
       /\ UNCHANGED <<config, pc, now>>

\* ------------------------------------------------------------ direct calls
\* await mcp.auth.load_access_token(c): the method called on its own
DirectLoadAccessToken(s) ==
    /\ pc = "serving"
    /\ \E c \in Candidates :
         calls' = [calls EXCEPT ![s] =
                     [Idle EXCEPT !.pc = "returned", !.cred = c,
                                  !.principal = load_access_token(auth_token, c),
                                  !.steps = <<"load_access_token">>]]
    /\ load_access_token_effect(calls'[s].cred)
    /\ prev' = IF calls[s].result.kind = "success"
               THEN [tool |-> calls[s].tool, args |-> calls[s].args,
                     read_now |-> calls[s].read_now,
                     content |-> calls[s].result.content]
               ELSE prev
    /\ UNCHANGED <<env, pc, TOKEN, MY_NUMBER, tools, defs_done, now>>

\* await fn(**kwargs) for a registered function fn: Python binds the
\* keyword arguments, raising TypeError when they do not fit the signature,
\* and else runs the body, which returns its text or raises.
DirectToolCall(s) ==
    /\ pc = "serving"
    /\ \E c \in ToolCalls :
         /\ c.tool \in DOMAIN tools
         /\ \E b \in {bind_arguments(c.tool, c.kwargs)} :
            \E out \in {IF b.ok THEN run_handler(tools[c.tool], b.bound, now, MY_NUMBER)
                                ELSE Raises("TypeError")} :
              LET fn == c.tool
                  kwargs == kw_map(c.kwargs)
              IN calls' = [calls EXCEPT ![s] =
                  IF ~b.ok
                  THEN [Idle EXCEPT !.pc = "returned", !.tool = fn, !.args = kwargs,
                                    !.handler = tools[fn], !.steps = <<"bind">>,
                                    !.result = Failure(out.text[1], b.names)]
                  ELSE [Idle EXCEPT !.pc = "returned", !.tool = fn, !.args = kwargs,
                                    !.handler = tools[fn], !.bound = b.bound,
                                    !.read_now = now, !.steps = <<"bind", "invoke">>,
                                    !.result = IF out.fault
                                               THEN Failure(out.text[1], {})
                                               ELSE Success(out.text)]]
         /\ handler_effect(c.tool)
    /\ prev' = IF calls[s].result.kind = "success"
               THEN [tool |-> calls[s].tool, args |-> calls[s].args,
                     read_now |-> calls[s].read_now,
                     content |-> calls[s].result.content]
               ELSE prev
    /\ UNCHANGED <<env, pc, auth_token, defs_done, now>>

Next ==
    \/ LoadEnv
    \/ AssertToken
    \/ AssertNumber
    \/ BuildServer
    \/ RegisterTool
    \/ Main
    \/ Tick
    \/ \E s \in DOMAIN calls : Receive(s, AllCalls)
    \/ \E s \in DOMAIN calls : Authenticate(s)
    \/ \E s \in DOMAIN calls : Resolve(s)
    \/ \E s \in DOMAIN calls : ValidateArguments(s)
    \/ \E s \in DOMAIN calls : Invoke(s)
    \/ \E s \in DOMAIN calls : Respond(s)

NextConc ==
    \/ LoadEnv
    \/ AssertToken
    \/ AssertNumber
    \/ BuildServer
    \/ RegisterTool
    \/ Main
    \/ Tick
    \/ \E s \in DOMAIN calls : Receive(s, ConcCalls)
    \/ \E s \in DOMAIN calls : Authenticate(s)
    \/ \E s \in DOMAIN calls : Resolve(s)
    \/ \E s \in DOMAIN calls : ValidateArguments(s)
    \/ \E s \in DOMAIN calls : Invoke(s)
    \/ \E s \in DOMAIN calls : Respond(s)

NextUnit ==
    \/ LoadEnv
    \/ AssertToken
    \/ AssertNumber
    \/ BuildServer
    \/ RegisterTool
    \/ Main
    \/ Tick
    \/ \E s \in DOMAIN calls : DirectLoadAccessToken(s)
    \/ \E s \in DOMAIN calls : DirectToolCall(s)

\* Spec: startup, then calls served one at a time through the dispatcher.
\* SpecUnit: startup, then the module's functions called directly.
\* SpecConc: startup, then NumSlots calls in flight, steps interleaved.
Spec == Init /\ [][Next]_vars
SpecUnit == Init /\ [][NextUnit]_vars
SpecConc == InitConc /\ [][NextConc]_vars

\* ============================================================== properties
\* The configured secret and operator identifier: what the environment held
\* at startup.
Secret == env.AUTH_TOKEN
OperatorId == env.MY_NUMBER
\* The six names the specification lists as registered
SixNames ==
    {"validate", "job_market_analyzer", "resume_optimizer",
     "business_opportunity_finder", "salary_negotiator", "skill_gap_analyzer"}
Slots == DOMAIN calls
Returned(s) == calls[s].pc = "respond"
Authenticated(s) == calls[s].steps # <<>>

\* C1: load_access_token yields a Principal (token echoed, unrestricted
\* scope, no expiry) exactly when the candidate equals the configured secret
\* character for character; any other candidate - empty, case variant,
\* padded with a blank - yields none, and the call returns normally.
C1_ExactMatch ==
    \A s \in Slots :
        calls[s].steps = <<"load_access_token">> =>
            /\ (calls[s].principal # <<>>) <=> (calls[s].cred = Secret)
            /\ calls[s].principal # <<>> =>
                   /\ Len(calls[s].principal) = 1
                   /\ calls[s].principal[1].token = calls[s].cred
                   /\ calls[s].principal[1].scopes = {"*"}
                   /\ calls[s].principal[1].expires_at = None
            /\ calls[s].pc = "returned"
            /\ calls[s].result.kind # "error"

C1_Witness ==
    \E s \in Slots :
        /\ calls[s].steps = <<"load_access_token">>
        /\ Secret = s_Tok
        /\ calls[s].cred = s_tok
        /\ calls[s].principal = <<>>

\* C2: a call whose credential is not the secret ends in AUTH_FAILURE
\* whatever its tool name and arguments, with authenticate the only step
\* taken: no resolution, no argument validation, no handler run.
C2_AuthFirst ==
    \A s \in Slots :
        (calls[s].pc # "idle" /\ calls[s].cred # Secret) =>
            /\ calls[s].pc \in {"authenticate", "respond"}
            /\ calls[s].handler = ""
            /\ calls[s].read_now = -1
            /\ Returned(s) =>
                   /\ calls[s].result = Failure("AUTH_FAILURE", {})
                   /\ calls[s].steps = <<"authenticate">>

C2_Witness ==
    \E s \in Slots :
        /\ Returned(s)
        /\ Secret = s_Tok
        /\ calls[s].cred = s_SpTok
        /\ calls[s].tool = "nonexistent_tool"
        /\ calls[s].args # NoArgs
        /\ calls[s].result.code = "AUTH_FAILURE"

\* C3: with the valid credential and a registered tool, a call lacking a
\* parameter the tool declares as required ends in INVALID_PARAMS naming
\* that parameter and its handler never runs; in particular
\* job_market_analyzer called without job_title names job_title.
C3_MissingRequired ==
    \A s \in Slots :
        (calls[s].pc # "idle" /\ calls[s].cred = Secret /\ calls[s].tool \in SixNames) =>
            /\ \A p \in RequiredParams(calls[s].tool) \ DOMAIN calls[s].args :
                   /\ calls[s].pc # "invoke"
                   /\ ~IsIn(calls[s].steps, "invoke")
                   /\ Returned(s) =>
                          /\ calls[s].result.code = "INVALID_PARAMS"
                          /\ p \in calls[s].result.names
            /\ (calls[s].tool = "job_market_analyzer"
                /\ "job_title" \notin DOMAIN calls[s].args
                /\ Returned(s)) =>
                   /\ calls[s].result.code = "INVALID_PARAMS"
                   /\ "job_title" \in calls[s].result.names
                   /\ ~IsIn(calls[s].steps, "invoke")

C3_Witness ==
    \E s \in Slots :
        /\ Returned(s)
        /\ calls[s].cred = Secret
        /\ calls[s].tool = "job_market_analyzer"
        /\ calls[s].args = NoArgs
        /\ calls[s].result = Failure("INVALID_PARAMS", {"job_title"})

\* The tools whose report carries an "Analysis Date" line
DatedTools == {"job_market_analyzer", "business_opportunity_finder"}
\* Two clock readings on one calendar date
SameDate(t1, t2) == t1 \div TicksPerDay = t2 \div TicksPerDay
SameAsPrev(s) ==
    /\ calls[s].pc = "returned"
    /\ calls[s].result.kind = "success"
    /\ prev.tool = calls[s].tool
    /\ prev.args = calls[s].args

\* C4 as stated: a tool invoked twice with identical arguments, at any two
\* points of the process's life, returns identical success payloads.
C4_Idempotent ==
    \A s \in Slots :
        SameAsPrev(s) => calls[s].result.content = prev.content

\* The part of C4 the code meets: two invocations with identical arguments
\* return identical success payloads when both run on the same calendar
\* date; only job_market_analyzer and business_opportunity_finder read the
\* clock, the other four return a function of their arguments (and
\* MY_NUMBER).
C4_IdempotentSameDate ==
    \A s \in Slots :
        (/\ SameAsPrev(s)
         /\ (calls[s].tool \in DatedTools => SameDate(calls[s].read_now, prev.read_now)))
        => calls[s].result.content = prev.content

C4_Witness ==
    \E s \in Slots :
        /\ SameAsPrev(s)
        /\ calls[s].tool = "job_market_analyzer"
        /\ calls[s].read_now # prev.read_now
        /\ SameDate(calls[s].read_now, prev.read_now)
        /\ calls[s].result.content = prev.content

\* C5: with the valid credential, a tool name outside the six registered
\* names ends in NOT_FOUND naming it, with no handler resolved or run; each
\* of the six names resolves to the function defined under that name and is
\* never reported as not found.
C5_Resolve ==
    \A s \in Slots :
        (calls[s].cred = Secret /\ IsIn(calls[s].steps, "resolve")) =>
            /\ calls[s].tool \notin SixNames =>
                   /\ Returned(s)
                   /\ calls[s].result = Failure("NOT_FOUND", {calls[s].tool})
                   /\ calls[s].handler = ""
                   /\ ~IsIn(calls[s].steps, "invoke")
            /\ calls[s].tool \in SixNames =>
                   /\ calls[s].handler = calls[s].tool
                   /\ calls[s].result.code # "NOT_FOUND"

C5_Witness ==
    \E s \in Slots :
        /\ Returned(s)
        /\ calls[s].cred = Secret
        /\ calls[s].tool = "nonexistent_tool"
        /\ calls[s].result = Failure("NOT_FOUND", {"nonexistent_tool"})

\* C6: with the valid credential, "validate" called with no parameters
\* returns success whose content is the operator identifier configured at
\* startup, after the authenticate, resolve, validate and invoke steps in
\* that order.
C6_Validate ==
    \A s \in Slots :
        (/\ Returned(s)
         /\ calls[s].cred = Secret
         /\ calls[s].tool = "validate"
         /\ calls[s].args = NoArgs) =>
            /\ calls[s].result = Success(OperatorId)
            /\ calls[s].steps = <<"authenticate", "resolve", "validate", "invoke">>

C6_Witness ==
    \E s \in Slots :
        /\ Returned(s)
        /\ calls[s].cred = s_Tok
        /\ calls[s].tool = "validate"
        /\ calls[s].result.content = s_number

\* C7: started with AUTH_TOKEN or MY_NUMBER unset, the process never gets
\* past its assertions: it never serves, the provider is never built, no
\* tool is registered, and no call is received or answered.
C7_StartupAborts ==
    (env.AUTH_TOKEN = None \/ env.MY_NUMBER = None) =>
        /\ pc \in {"load_env", "assert_token", "assert_number", "aborted"}
        /\ auth_token = None
        /\ DOMAIN tools = {}
        /\ defs_done = 0
        /\ \A s \in Slots : calls[s] = Idle
        /\ prev = NoPrev

C7_Witness ==
    /\ pc = "aborted"
    /\ env.AUTH_TOKEN # None
    /\ env.MY_NUMBER = None

\* C8: once the server is serving, no step - receiving, any dispatcher
\* step of a succeeding or failing call, the clock - changes the secret,
\* the operator identifier or the registry.
C8_ConfigFrame ==
    [][pc = "serving" =>
          /\ UNCHANGED <<TOKEN, MY_NUMBER, auth_token, tools, defs_done>>
          /\ pc' = "serving"]_vars

C8_Witness ==
    /\ pc = "serving"
    /\ prev # NoPrev
    /\ \E s \in Slots : Returned(s) /\ calls[s].result.kind = "error"
    /\ TOKEN = Secret /\ auth_token = Secret /\ MY_NUMBER = OperatorId
    /\ DOMAIN tools = SixNames

\* What the dispatcher returns for call c when it is the only call the
\* freshly started server handles, its handler reading the clock at t.
RunAlone(c, t) ==
    IF c.cred # Secret THEN Failure("AUTH_FAILURE", {})
    ELSE IF c.tool \notin SixNames THEN Failure("NOT_FOUND", {c.tool})
    ELSE IF missing_required(c.tool, c.args) # {}
         THEN Failure("INVALID_PARAMS", missing_required(c.tool, c.args))
    ELSE LET out == run_handler(c.tool,
                        bind_arguments(c.tool, known_arguments(c.tool, c.args)).bound,
                        t, OperatorId)
         IN IF out.fault THEN Failure("INTERNAL_ERROR", {}) ELSE Success(out.text)

\* C9: with several calls in flight and their steps interleaved in any
\* order, every call is answered with the result it would get alone -
\* whether the others fail with AUTH_FAILURE, NOT_FOUND, INVALID_PARAMS or
\* INTERNAL_ERROR - and the server is still serving.
C9_Isolation ==
    \A s \in Slots :
        /\ calls[s].pc # "idle" => pc = "serving"
        /\ Returned(s) => calls[s].result = RunAlone(calls[s], calls[s].read_now)

C9_Witness ==
    \E s1 \in Slots : \E s2 \in Slots \ {s1} :
        /\ Returned(s1)
        /\ calls[s1].result.code = "INTERNAL_ERROR"
        /\ calls[s2].pc = "respond"
        /\ calls[s2].result.kind = "success"
        /\ IsIn(calls[s2].steps, "invoke")
        /\ pc = "serving"

\* The invocation supplies every required parameter, no other name than the
\* declared ones, and omits an optional one
OmitsOptional(s) ==
    /\ calls[s].pc = "returned"
    /\ calls[s].tool \in SixNames
    /\ RequiredParams(calls[s].tool) \subseteq DOMAIN calls[s].args
    /\ DOMAIN calls[s].args \subseteq ParamNames(calls[s].tool)
    /\ ParamNames(calls[s].tool) \ DOMAIN calls[s].args # {}

\* C10 as stated: such an invocation runs the handler with the supplied
\* values plus the declared default of each omitted optional parameter
\* (job_market_analyzer with only job_title: location "Global", industry
\* None), and returns success with non-empty content.
C10_DefaultsThenSuccess ==
    \A s \in Slots :
        OmitsOptional(s) =>
            /\ DOMAIN calls[s].bound = ParamNames(calls[s].tool)
            /\ \A p \in DOMAIN calls[s].args : calls[s].bound[p] = calls[s].args[p]
            /\ (calls[s].tool = "job_market_analyzer"
                /\ DOMAIN calls[s].args = {"job_title"}) =>
                   /\ calls[s].bound["location"] = StrV(s_Global)
                   /\ calls[s].bound["industry"] = NoneV
            /\ calls[s].result.kind = "success"
            /\ calls[s].result.content # <<>>

\* The part of C10 the code meets: the defaults are bound as declared, and
\* the content is non-empty whenever the handler returns.
C10_DefaultsBound ==
    \A s \in Slots :
        OmitsOptional(s) =>
            /\ DOMAIN calls[s].bound = ParamNames(calls[s].tool)
            /\ \A p \in DOMAIN calls[s].args : calls[s].bound[p] = calls[s].args[p]
            /\ (calls[s].tool = "job_market_analyzer"
                /\ DOMAIN calls[s].args = {"job_title"}) =>
                   /\ calls[s].bound["location"] = StrV(s_Global)
                   /\ calls[s].bound["industry"] = NoneV
            /\ calls[s].result.kind = "success" => calls[s].result.content # <<>>
            /\ calls[s].result.kind # "success" =>
                   /\ calls[s].tool = "salary_negotiator"
                   /\ calls[s].args["years_experience"] = HugeInt

=============================================================================
